---- MODULE Spec2Model ----
(***************************************************************************)
(* tinyhist: a 32-byte histogram of 16 bit-packed buckets (tinyhist.c).    *)
(*                                                                         *)
(* A histogram is the record [sample, unit, buckets, overflow]:            *)
(*   sample, unit  the two 4-bit fields of tinyhist_t, kept modulo 16;     *)
(*   buckets       the decoded counts of the 16 buckets (what bucket_get   *)
(*                 reads out of data[31]), bucket i holding bucket_bits    *)
(*                 bits;                                                   *)
(*   overflow      TRUE once some bucket_set on this histogram, or on one  *)
(*                 combined into it, was asked to store a count that does  *)
(*                 not fit, i.e. Assert(count < (1 << nbits)) of           *)
(*                 bucket_set failed.  Without assertions the loop of      *)
(*                 bucket_set copies the low nbits bits only, which is     *)
(*                 what buckets holds then.                                *)
(* Values are the float8 inputs; the model uses whole numbers, and the     *)
(* number NaN below for the float8 that is not a number.                   *)
(***************************************************************************)
EXTENDS Integers, Sequences, FiniteSets, TLC

VARIABLES
    state,       \* the histogram the transition functions work on (argument 0)
    state_null,  \* TRUE while argument 0 is still NULL
    last,        \* the last call: its name, value (the values of an array call),
                 \* gate outcome and bucket
    ncalls,      \* calls made so far
    args,        \* the two histograms the last tinyhist_combine was called with
    src,         \* argument 1 of the last tinyhist_combine, as the call left it
    folded,      \* the histograms combined into state, in order
    pc,          \* where a call of tinyhist_add stands: "idle", "range", "index"
    entry,       \* the histogram hist_adjust_range was entered with
    text,        \* what tinyhist_out (characters) or tinyhist_send (bytes)
                 \* returned last
    parsed,      \* what tinyhist_in or tinyhist_recv made of text
    base,        \* the histogram a sequence of values is added to
    added,       \* the values counted into base so far, in order
    raw,         \* a tinyhist_t as it is stored: sample, unit and the bytes data[31]
    wrote        \* the last bucket_set on raw: its bucket, its count and raw before it

vars == <<state, state_null, last, ncalls, args, src, folded, pc, entry, text, parsed,
          base, added, raw, wrote>>

combineVars == <<args, src, folded>>

stepVars == <<pc, entry>>

textVars == <<text, parsed>>

orderVars == <<base, added>>

bitVars == <<raw, wrote>>

HISTOGRAM_BUCKETS == 16

Buckets == 0 .. (HISTOGRAM_BUCKETS - 1)

\* 4-bit bit-fields sample:4 and unit:4 of tinyhist_t
FieldMod == 16

bucket_bits == [b \in Buckets |-> 8 + b]

Max(a, b) == IF a >= b THEN a ELSE b

\* the float8 NaN, a value of the input type: it is coded as a number that
\* stands for no other input (the numeric inputs of the model are positive)
NaN == 0 - 1

\* "a < v" and "a >= v" of C for an integer a and a double v: both are false
\* when v is NaN
less(a, v) == v # NaN /\ a < v

at_least(a, v) == v # NaN /\ a >= v

\* ------------------------------------------------------------------------
\* bucket codec, on decoded counts

bucket_get(hist, bucket) == hist.buckets[bucket]

bucket_set(hist, bucket, count) ==
    [hist EXCEPT !.buckets[bucket] = count % (2 ^ bucket_bits[bucket]),
                 !.overflow = @ \/ (count >= 2 ^ bucket_bits[bucket])]

\* a loop of bucket_set over all buckets, bucket i being given counts[i]; the
\* loops modelled with it compute counts[i] from counts not yet overwritten
bucket_set_all(hist, counts) ==
    [hist EXCEPT !.buckets = [i \in Buckets |-> counts[i] % (2 ^ bucket_bits[i])],
                 !.overflow = @ \/ \E i \in Buckets : counts[i] >= 2 ^ bucket_bits[i]]

bucket_maxcount(bucket) == (2 ^ bucket_bits[bucket]) - 1

hist_maxvalue(hist) == (2 ^ hist.unit) * (2 ^ (HISTOGRAM_BUCKETS - 1))

\* ------------------------------------------------------------------------
\* bucket codec, on the bytes of data[31]: a stored histogram is the record
\* [sample, unit, data], data[k] being byte k

\* bytes of the buffer data
DataBytes == 31

\* the table with bucket 8 starting one bit early
bucket_offset_overlapping ==
    [b \in Buckets |->
        <<0, 8, 17, 27, 38, 50, 63, 77, 91, 108, 125, 143, 162, 182, 203, 225>>[b + 1]]

bucket_offset ==
    [b \in Buckets |->
        <<0, 8, 17, 27, 38, 50, 63, 77, 92, 108, 125, 143, 162, 182, 203, 225>>[b + 1]]

\* "x & (0x1 << bit)" is not zero
bit_set(x, bit) == (x \div (2 ^ bit)) % 2 = 1

\* the byte after "|= (0x1 << bit)" only, whatever the bit of the count is
write_bit_set_only(byte, bit, on) ==
    IF bit_set(byte, bit) THEN byte ELSE byte + 2 ^ bit

\* the byte after "|= (0x1 << bit)" (on) or "&= ~(0x1 << bit)" (not on)
write_bit(byte, bit, on) ==
    IF on
    THEN IF bit_set(byte, bit) THEN byte ELSE byte + 2 ^ bit
    ELSE IF bit_set(byte, bit) THEN byte - 2 ^ bit ELSE byte

\* the loop of bucket_get from bit i on, value being what it has built
RECURSIVE get_bits(_, _, _, _)
get_bits(data, bucket, i, value) ==
    IF i < bucket_bits[bucket]
    THEN LET byte == (bucket_offset[bucket] + i) \div 8
             bit  == (bucket_offset[bucket] + i) % 8
         IN  get_bits(data, bucket, i + 1,
                      IF bit_set(data[byte], bit) THEN value + 2 ^ i ELSE value)
    ELSE value

\* bucket_get on the stored bytes
bucket_get_data(hist, bucket) == get_bits(hist.data, bucket, 0, 0)

\* the loop of bucket_set from bit i on
RECURSIVE set_bits(_, _, _, _)
set_bits(data, bucket, count, i) ==
    IF i < bucket_bits[bucket]
    THEN LET byte == (bucket_offset[bucket] + i) \div 8
             bit  == (bucket_offset[bucket] + i) % 8
         IN  set_bits([data EXCEPT ![byte] = write_bit(@, bit, bit_set(count, i))],
                      bucket, count, i + 1)
    ELSE data

\* bucket_set on the stored bytes
bucket_set_data(hist, bucket, count) ==
    [hist EXCEPT !.data = set_bits(@, bucket, count, 0)]

\* ------------------------------------------------------------------------
\* range / sample controller

\* every bucket is set to half its count (cnt/2 of non-negative ints), then
\* the 4-bit sample is incremented
hist_adjust_sample(hist) ==
    LET halved == bucket_set_all(hist, [i \in Buckets |-> bucket_get(hist, i) \div 2])
    IN  [halved EXCEPT !.sample = (@ + 1) % FieldMod]

\* hist_adjust_unit shifting buckets 2..15 down without merging bucket 1 into
\* bucket 0
hist_adjust_unit_no_merge(hist) ==
    LET counts  == [i \in Buckets |->
                       IF i = 0 THEN bucket_get(hist, 0)
                       ELSE IF i < HISTOGRAM_BUCKETS - 1 THEN bucket_get(hist, i + 1)
                       ELSE 0]
        shifted == bucket_set_all(hist, counts)
    IN  [shifted EXCEPT !.unit = (@ + 1) % FieldMod]

\* hist_adjust_unit shifting every bucket down, bucket 0 not keeping its own
\* count
hist_adjust_unit_shift_only(hist) ==
    LET counts  == [i \in Buckets |->
                       IF i < HISTOGRAM_BUCKETS - 1 THEN bucket_get(hist, i + 1) ELSE 0]
        shifted == bucket_set_all(hist, counts)
    IN  [shifted EXCEPT !.unit = (@ + 1) % FieldMod]

\* bucket 0 takes buckets 0 and 1, bucket i in 1..14 takes bucket i+1 (read
\* before the loop reaches it), bucket 15 is reset; then the 4-bit unit is
\* incremented
hist_adjust_unit(hist) ==
    LET counts  == [i \in Buckets |->
                       IF i = 0 THEN bucket_get(hist, 0) + bucket_get(hist, 1)
                       ELSE IF i < HISTOGRAM_BUCKETS - 1 THEN bucket_get(hist, i + 1)
                       ELSE 0]
        shifted == bucket_set_all(hist, counts)
    IN  [shifted EXCEPT !.unit = (@ + 1) % FieldMod]

\* adjust_sample with the first check made against a quarter of the capacity
adjust_sample_quarter_full(hist) ==
    \/ bucket_get(hist, 0) + bucket_get(hist, 1) >= bucket_maxcount(0) \div 4
    \/ \E i \in 1 .. (HISTOGRAM_BUCKETS - 2) :
          bucket_get(hist, i + 1) >= bucket_maxcount(i)

\* adjust_sample with the first check made against the capacity of bucket 1
adjust_sample_wrong_bucket(hist) ==
    \/ bucket_get(hist, 0) + bucket_get(hist, 1) >= bucket_maxcount(1)
    \/ \E i \in 1 .. (HISTOGRAM_BUCKETS - 2) :
          bucket_get(hist, i + 1) >= bucket_maxcount(i)

\* the flag adjust_sample computed by one pass of the inner loop
adjust_sample(hist) ==
    \/ bucket_get(hist, 0) + bucket_get(hist, 1) >= bucket_maxcount(0)
    \/ \E i \in 1 .. (HISTOGRAM_BUCKETS - 2) :
          bucket_get(hist, i + 1) >= bucket_maxcount(i)

\* the inner "while (true)" loop of hist_adjust_range
RECURSIVE reduce_sample(_)
reduce_sample(hist) ==
    IF adjust_sample(hist) THEN reduce_sample(hist_adjust_sample(hist)) ELSE hist

RECURSIVE hist_adjust_range(_, _)
hist_adjust_range(hist, value) ==
    IF less(hist_maxvalue(hist), value)
    THEN hist_adjust_range(hist_adjust_unit(reduce_sample(hist)), value)
    ELSE hist

RECURSIVE index_from(_, _, _)
index_from(unit, value, idx) ==
    IF less((2 ^ idx) * unit, value) THEN index_from(unit, value, idx + 1) ELSE idx

\* bucket_index returning the first bucket whose upper bound is above the value
bucket_index_strict(hist, value) ==
    IF value >= hist_maxvalue(hist) THEN HISTOGRAM_BUCKETS - 1
    ELSE index_from(2 ^ hist.unit, value + 1, 0)

bucket_index(hist, value) == index_from(2 ^ hist.unit, value, 0)

\* the two assertions of bucket_index hold: Assert(hist_maxvalue(hist) >=
\* value) on entry and Assert(idx < HISTOGRAM_BUCKETS) after the loop
bucket_index_asserts(hist, value) ==
    /\ at_least(hist_maxvalue(hist), value)
    /\ bucket_index(hist, value) < HISTOGRAM_BUCKETS

\* r is what random() returned; (r & s) with s = 2^sample - 1 is r mod 2^sample
hist_sample(hist, r) == (r % (2 ^ hist.sample)) = 0

\* the count of tinyhist_info: the sum of the decoded buckets below bucket n
RECURSIVE count_below(_, _)
count_below(hist, n) ==
    IF n = 0 THEN 0 ELSE count_below(hist, n - 1) + bucket_get(hist, n - 1)

total_count(hist) == count_below(hist, HISTOGRAM_BUCKETS)

\* bucket bounds as tinyhist_buckets reports them
bucket_lower(hist, bucket) ==
    IF bucket > 0 THEN 2 ^ (hist.unit + (bucket - 1)) ELSE 0

bucket_upper(hist, bucket) == 2 ^ (hist.unit + bucket)

\* ------------------------------------------------------------------------
\* accumulator: the body shared by tinyhist_accum, tinyhist_add and the loop
\* of tinyhist_add_array

\* accum_value counting every value in bucket 0
accum_value_first_bucket(hist, value, r) ==
    IF hist_sample(hist, r)
    THEN LET ranged == hist_adjust_range(hist, value)
             bucket == 0
             room   == IF bucket_get(ranged, bucket) = bucket_maxcount(bucket)
                       THEN hist_adjust_sample(ranged)
                       ELSE ranged
         IN  bucket_set(room, bucket, bucket_get(room, bucket) + 1)
    ELSE hist

accum_value(hist, value, r) ==
    IF hist_sample(hist, r)
    THEN LET ranged == hist_adjust_range(hist, value)
             bucket == bucket_index(ranged, value)
             room   == IF bucket_get(ranged, bucket) = bucket_maxcount(bucket)
                       THEN hist_adjust_sample(ranged)
                       ELSE ranged
         IN  bucket_set(room, bucket, bucket_get(room, bucket) + 1)
    ELSE hist

\* the loop of tinyhist_add_array over elements lo .. hi of the deconstructed
\* array, in index order (the range is split in two to keep the evaluation
\* shallow); rs[i] is the random() draw made for element i
RECURSIVE add_array_range(_, _, _, _, _, _)
add_array_range(hist, values, nulls, rs, lo, hi) ==
    IF lo > hi THEN hist
    ELSE IF lo = hi
    THEN IF nulls[lo] THEN hist ELSE accum_value(hist, values[lo], rs[lo])
    ELSE LET mid   == (lo + hi) \div 2
             first == add_array_range(hist, values, nulls, rs, lo, mid)
         IN  IF first.sample \in 0 .. (FieldMod - 1)
             THEN add_array_range(first, values, nulls, rs, mid + 1, hi)
             ELSE first

\* palloc0(sizeof(tinyhist_t))
zero_hist ==
    [sample |-> 0, unit |-> 0, buckets |-> [b \in Buckets |-> 0], overflow |-> FALSE]

\* ------------------------------------------------------------------------
\* binary output and input

\* tinyhist_send with a count that does not fit a byte sent as 255
tinyhist_send_saturating(hist) ==
    <<hist.sample>> \o
    [i \in 1 .. HISTOGRAM_BUCKETS |->
        IF bucket_get(hist, i - 1) > 255 THEN 255 ELSE bucket_get(hist, i - 1)]

\* pq_sendbyte appends the low 8 bits of its argument: the sample, then one
\* byte per bucket; the unit is not sent
tinyhist_send(hist) ==
    <<hist.sample % 256>> \o
    [i \in 1 .. HISTOGRAM_BUCKETS |-> bucket_get(hist, i - 1) % 256]

\* msg[1] is the sample byte, msg[2 + i] the byte of bucket i
tinyhist_recv(msg) ==
    bucket_set_all([zero_hist EXCEPT !.sample = msg[1] % FieldMod],
                   [i \in Buckets |-> msg[2 + i]])

\* ------------------------------------------------------------------------
\* merger

\* "while (hist->sample < sample) hist_adjust_sample(hist)"
RECURSIVE raise_sample(_, _)
raise_sample(hist, sample) ==
    IF hist.sample < sample THEN raise_sample(hist_adjust_sample(hist), sample) ELSE hist

\* the unit loop run as a do-while: one escalation even when none is due
RECURSIVE raise_unit_do_while(_, _)
raise_unit_do_while(hist, unit) ==
    LET once == hist_adjust_unit(hist)
    IN  IF once.unit < unit THEN raise_unit_do_while(once, unit) ELSE once

\* "while (hist->unit < unit) hist_adjust_unit(hist)"
RECURSIVE raise_unit(_, _)
raise_unit(hist, unit) ==
    IF hist.unit < unit THEN raise_unit(hist_adjust_unit(hist), unit) ELSE hist

\* the equalizing loops of tinyhist_combine: both histograms are raised to the
\* larger sample, then to the larger unit
equalize(d, s) ==
    LET sample == Max(s.sample, d.sample)
        s1     == raise_sample(s, sample)
        d1     == raise_sample(d, sample)
        unit   == Max(s1.unit, d1.unit)
    IN  [src |-> raise_unit(s1, unit), dst |-> raise_unit(d1, unit)]

\* the flag adjust_sample set also when a sum just fills its bucket
combine_adjust_sample_when_full(s, d) ==
    \E i \in Buckets : bucket_get(s, i) + bucket_get(d, i) >= bucket_maxcount(i)

\* the flag adjust_sample of tinyhist_combine
combine_adjust_sample(s, d) ==
    \E i \in Buckets : bucket_get(s, i) + bucket_get(d, i) > bucket_maxcount(i)

\* the extra pass left out
extra_sample_skipped(s, d) == [src |-> s, dst |-> d]

\* the extra pass halving dst only
extra_sample_dst_only(s, d) ==
    IF combine_adjust_sample(s, d)
    THEN [src |-> s, dst |-> hist_adjust_sample(d)]
    ELSE [src |-> s, dst |-> d]

\* "if (adjust_sample) { hist_adjust_sample(src); hist_adjust_sample(dst); }"
extra_sample(s, d) ==
    IF combine_adjust_sample(s, d)
    THEN [src |-> hist_adjust_sample(s), dst |-> hist_adjust_sample(d)]
    ELSE [src |-> s, dst |-> d]

\* the loop "bucket_set(dst, i, bucket_get(src,i) + bucket_get(dst,i))"
sum_buckets(s, d) ==
    bucket_set_all(d, [i \in Buckets |-> bucket_get(s, i) + bucket_get(d, i)])

\* tinyhist_combine with both arguments present: what it leaves in src and in
\* dst (both are changed in place; dst is returned)
combine(d, s) ==
    LET equal == equalize(d, s)
        both  == extra_sample(equal.src, equal.dst)
        sum   == sum_buckets(both.src, both.dst)
    IN  [src |-> both.src, dst |-> [sum EXCEPT !.overflow = @ \/ both.src.overflow]]

\* ------------------------------------------------------------------------
\* bounds and inputs

\* calls of the transition functions in one run of the accumulation model
MaxCalls == 4

\* calls in one run of the combine model
MaxCombines == 2

\* length of the long arrays handed to tinyhist_add_array
FillLen == 255

MaxInput == 2 ^ 30

\* input values of the accumulation model, all in (0, 2^30]
Values == {1, 2, 3, 2 ^ 15, 2 ^ 16, MaxInput}

\* random() draws: 0 passes every gate, 1 only the gate of sample = 0
RandomDraws == {0, 1}

Repeat(v, n) == [i \in 1 .. n |-> v]

\* the values 1, 2, 4, ..., 2^20
Doubling == [i \in 1 .. 21 |-> 2 ^ (i - 1)]

\* arrays handed to tinyhist_add_array: (values, nulls) as deconstruct_array
\* returns them
Arrays ==
    { [values |-> Repeat(1, FillLen), nulls |-> Repeat(FALSE, FillLen)],
      [values |-> Repeat(3, 2 * FillLen + 1), nulls |-> Repeat(FALSE, 2 * FillLen + 1)],
      [values |-> <<2, 7, 2 ^ 16>>, nulls |-> <<FALSE, TRUE, FALSE>>],
      [values |-> Doubling, nulls |-> Repeat(FALSE, Len(Doubling))] }

\* a message of tinyhist_send's layout: the sample byte, then bucket 0,
\* bucket 1 and the same byte for every other bucket
Message(sample, b0, b1, rest) == <<sample, b0, b1>> \o Repeat(rest, HISTOGRAM_BUCKETS - 2)

Messages ==
    { Message(0, 0, 0, 0),      Message(0, 1, 0, 0),    Message(0, 255, 255, 0),
      Message(0, 255, 255, 255), Message(1, 255, 0, 0),  Message(15, 255, 0, 0),
      Message(15, 1, 0, 0) }

ReceivedHists == { tinyhist_recv(msg) : msg \in Messages }

\* histograms a run can hold: received ones, received ones whose range was
\* grown by adding 2^17, and a fresh one holding one observation of 100
InputHists ==
    ReceivedHists \cup
    { accum_value(tinyhist_recv(msg), 2 ^ 17, 0) :
        msg \in { Message(0, 0, 0, 0), Message(0, 255, 255, 255), Message(15, 255, 0, 0) } }
    \cup { accum_value(zero_hist, 100, 0) }

\* values added in the combine model
CombineValues == {1, 2 ^ 16}

no_call == [op |-> "none", value |-> 0, sampled |-> FALSE, bucket |-> 0]

no_args == [dst |-> zero_hist, src |-> zero_hist]

no_parse == [op |-> "none", ok |-> FALSE, hist |-> zero_hist]

\* palloc0(sizeof(tinyhist_t)), as stored
zero_raw == [sample |-> 0, unit |-> 0, data |-> [k \in 0 .. (DataBytes - 1) |-> 0]]

no_write == [op |-> "none", bucket |-> 0, count |-> 0, before |-> zero_raw]

\* ------------------------------------------------------------------------
\* the transition functions

\* argument 0, created zeroed (palloc0) when it is NULL
current == IF state_null THEN zero_hist ELSE state

\* tinyhist_accum with a non-NULL value: the state is updated in place
tinyhist_accum(value, r) ==
    /\ state' = accum_value(current, value, r)
    /\ state_null' = FALSE
    /\ last' = [op |-> "accum", value |-> value, sampled |-> hist_sample(current, r),
                bucket |-> IF hist_sample(current, r)
                           THEN bucket_index(hist_adjust_range(current, value), value)
                           ELSE 0]
    /\ ncalls' = ncalls + 1
    /\ folded' = <<state'>>
    /\ UNCHANGED <<args, src, stepVars, textVars, orderVars, bitVars>>

\* tinyhist_accum with a NULL value: argument 0 is returned as it is
tinyhist_accum_null ==
    /\ last.op # "null"
    /\ last' = [no_call EXCEPT !.op = "null"]
    /\ ncalls' = ncalls + 1
    /\ UNCHANGED <<state, state_null, combineVars, stepVars, textVars, orderVars, bitVars>>

tinyhist_add_array(array, r) ==
    /\ state' = add_array_range(current, array.values, array.nulls,
                                Repeat(r, Len(array.values)), 1, Len(array.values))
    /\ state_null' = FALSE
    /\ last' = [no_call EXCEPT !.op = "add_array", !.value = array.values]
    /\ ncalls' = ncalls + 1
    /\ folded' = <<state'>>
    /\ UNCHANGED <<args, src, stepVars, textVars, orderVars, bitVars>>

\* tinyhist_combine(state, s): a NULL state becomes a copy of s; otherwise s
\* and the state are brought to one scale and summed into the state
tinyhist_combine(s) ==
    /\ IF state_null
       THEN /\ state' = s
            /\ src' = s
            /\ last' = [no_call EXCEPT !.op = "copy"]
            /\ args' = no_args
       ELSE LET both == combine(state, s)
            IN  /\ state' = both.dst
                /\ src' = both.src
            /\ last' = [no_call EXCEPT !.op = "combine"]
            /\ args' = [dst |-> state, src |-> s]
    /\ state_null' = FALSE
    /\ folded' = Append(folded, s)
    /\ ncalls' = ncalls + 1
    /\ UNCHANGED <<stepVars, textVars, orderVars, bitVars>>

\* ------------------------------------------------------------------------
\* accumulation from the empty aggregate state

\* what the variables a model does not use hold
Unused ==
    /\ pc = "idle"
    /\ entry = zero_hist
    /\ text = <<>>
    /\ parsed = no_parse
    /\ base = zero_hist
    /\ added = <<>>
    /\ raw = zero_raw
    /\ wrote = no_write

Init ==
    /\ state = zero_hist
    /\ state_null = TRUE
    /\ last = no_call
    /\ ncalls = 0
    /\ args = no_args
    /\ src = zero_hist
    /\ folded = <<>>
    /\ Unused

Accum(value, r) == ncalls < MaxCalls /\ tinyhist_accum(value, r)

AccumNull == ncalls < MaxCalls /\ tinyhist_accum_null

AddArray(array, r) == ncalls < MaxCalls /\ tinyhist_add_array(array, r)

Next ==
    \/ \E value \in Values, r \in RandomDraws : Accum(value, r)
    \/ AccumNull
    \/ \E array \in Arrays, r \in RandomDraws : AddArray(array, r)

Spec == Init /\ [][Next]_vars

\* ------------------------------------------------------------------------
\* combining partial states: the state starts NULL or as any input histogram

InitCombine ==
    /\ \/ state_null = TRUE /\ state = zero_hist /\ folded = <<>>
       \/ state_null = FALSE /\ state \in InputHists /\ folded = <<state>>
    /\ last = no_call
    /\ ncalls = 0
    /\ args = no_args
    /\ src = zero_hist
    /\ Unused

Combine(s) == ncalls < MaxCombines /\ tinyhist_combine(s)

CombineAccum(value, r) == ncalls < MaxCombines /\ tinyhist_accum(value, r)

NextCombine ==
    \/ \E s \in InputHists : Combine(s)
    \/ \E value \in CombineValues, r \in RandomDraws : CombineAccum(value, r)

SpecCombine == InitCombine /\ [][NextCombine]_vars

\* ------------------------------------------------------------------------
\* tinyhist_add, one step of its loops at a time: the loop of
\* hist_adjust_range does not end for every value, so it cannot be taken as
\* one step.  last.value is the value being added.

\* calls of tinyhist_add in one run of the stepwise model
MaxAdds == 1

\* values added in the stepwise model: numbers, one of them above
\* 2^15 * 2^15, and NaN
StepValues == {1, 2 ^ 16, MaxInput, MaxInput + 1, NaN}

\* histograms tinyhist_add is called with: the input histograms, and one
\* holding 255 in bucket 0 and 257 in bucket 1 (two values 2 added to a
\* received histogram)
StepHists ==
    InputHists \cup
    { accum_value(accum_value(tinyhist_recv(Message(0, 255, 255, 0)), 2, 0), 2, 0) }

InitSteps ==
    /\ \/ state_null = TRUE /\ state = zero_hist
       \/ state_null = FALSE /\ state \in StepHists
    /\ last = no_call
    /\ ncalls = 0
    /\ args = no_args
    /\ src = zero_hist
    /\ folded = <<>>
    /\ Unused

\* the call, up to the sampling gate: argument 0 is copied (or created
\* zeroed), and the value is dropped unless hist_sample passes
AddCall(value, r) ==
    /\ pc = "idle"
    /\ ncalls < MaxAdds
    /\ state' = current
    /\ state_null' = FALSE
    /\ entry' = current
    /\ last' = [op |-> "add", value |-> value, sampled |-> hist_sample(current, r),
                bucket |-> 0]
    /\ pc' = IF hist_sample(current, r) THEN "range" ELSE "idle"
    /\ ncalls' = ncalls + 1
    /\ UNCHANGED <<combineVars, textVars, orderVars, bitVars>>

\* hist_adjust_range: one pass of the inner loop that found adjust_sample set
RangeSample ==
    /\ pc = "range"
    /\ less(hist_maxvalue(state), last.value)
    /\ adjust_sample(state)
    /\ state' = hist_adjust_sample(state)
    /\ UNCHANGED <<state_null, last, ncalls, combineVars, stepVars, textVars, orderVars, bitVars>>

\* hist_adjust_range: the inner loop breaks and the unit is doubled
RangeUnit ==
    /\ pc = "range"
    /\ less(hist_maxvalue(state), last.value)
    /\ ~adjust_sample(state)
    /\ state' = hist_adjust_unit(state)
    /\ UNCHANGED <<state_null, last, ncalls, combineVars, stepVars, textVars, orderVars, bitVars>>

\* hist_adjust_range returns: the outer loop's condition is false
RangeDone ==
    /\ pc = "range"
    /\ ~less(hist_maxvalue(state), last.value)
    /\ pc' = "index"
    /\ UNCHANGED <<state, state_null, last, ncalls, combineVars, entry, textVars, orderVars, bitVars>>

\* bucket_index, the halving when the bucket is full, and the increment
AddCount ==
    /\ pc = "index"
    /\ LET bucket == bucket_index(state, last.value)
           room   == IF bucket_get(state, bucket) = bucket_maxcount(bucket)
                     THEN hist_adjust_sample(state)
                     ELSE state
       IN  /\ state' = bucket_set(room, bucket, bucket_get(room, bucket) + 1)
           /\ last' = [last EXCEPT !.bucket = bucket]
    /\ pc' = "idle"
    /\ UNCHANGED <<state_null, ncalls, combineVars, entry, textVars, orderVars, bitVars>>

NextSteps ==
    \/ \E value \in StepValues, r \in RandomDraws : AddCall(value, r)
    \/ RangeSample
    \/ RangeUnit
    \/ RangeDone
    \/ AddCount

SpecSteps == InitSteps /\ [][NextSteps]_vars

\* a call that has started runs on: nothing in tinyhist_add waits
FairSpecSteps ==
    SpecSteps /\ WF_vars(RangeSample \/ RangeUnit \/ RangeDone \/ AddCount)

\* ------------------------------------------------------------------------
\* text output and input.  A text is a sequence of characters.

DigitChars == <<"0", "1", "2", "3", "4", "5", "6", "7", "8", "9">>

\* what %d and %hhu print for a number n >= 0
RECURSIVE decimal(_)
decimal(n) ==
    IF n < 10 THEN <<DigitChars[n + 1]>>
    ELSE decimal(n \div 10) \o <<DigitChars[(n % 10) + 1]>>

\* the arguments of the format in order: sample, unit, buckets[0 .. 15]
out_fields(hist) ==
    <<hist.sample, hist.unit>> \o [i \in 1 .. HISTOGRAM_BUCKETS |-> bucket_get(hist, i - 1)]

\* fields k .. Len(fields) printed with ", " between them
RECURSIVE print_fields(_, _)
print_fields(fields, k) ==
    IF k > Len(fields) THEN <<>>
    ELSE decimal(fields[k])
         \o (IF k < Len(fields) THEN <<",", " ">> ELSE <<>>)
         \o print_fields(fields, k + 1)

\* appendStringInfo(&str, "{%hhu, %hhu, %d, ..., %d}", ...)
tinyhist_out(hist) == <<"{">> \o print_fields(out_fields(hist), 1) \o <<"}">>

IsDigit(c) == \E d \in 1 .. 10 : DigitChars[d] = c

DigitValue(c) == (CHOOSE d \in 1 .. 10 : DigitChars[d] = c) - 1

\* the position after the white space that starts at pos (a conversion and a
\* space of the format both skip it)
RECURSIVE skip_space(_, _)
skip_space(str, pos) ==
    IF pos <= Len(str) /\ str[pos] = " " THEN skip_space(str, pos + 1) ELSE pos

\* the digits read from pos on: the number they spell and the position after
\* them (pos itself when no digit stands there)
RECURSIVE scan_digits(_, _, _)
scan_digits(str, pos, acc) ==
    IF pos <= Len(str) /\ IsDigit(str[pos])
    THEN scan_digits(str, pos + 1, 10 * acc + DigitValue(str[pos]))
    ELSE [number |-> acc, next |-> pos]

\* sscanf from conversion k of nconv on: the numbers assigned so far are
\* done; a conversion that finds no digit, or a "," that does not match,
\* ends the scan
RECURSIVE scan_fields(_, _, _, _, _)
scan_fields(str, pos, k, nconv, done) ==
    LET start == skip_space(str, pos)
        got   == scan_digits(str, start, 0)
        after == skip_space(str, got.next + 1)
    IN  IF k > nconv \/ got.next = start THEN done
        ELSE IF k < nconv /\ got.next <= Len(str) /\ str[got.next] = ","
        THEN scan_fields(str, after, k + 1, nconv, Append(done, got.number))
        ELSE Append(done, got.number)

\* the values sscanf assigns for the format "{%hhu, %hhu, %d, ..., %d}": its
\* return value is their number
sscanf(str) ==
    IF Len(str) >= 1 /\ str[1] = "{"
    THEN scan_fields(str, 2, 1, HISTOGRAM_BUCKETS + 2, <<>>)
    ELSE <<>>

\* tinyhist_in: elog(ERROR) unless sscanf returned 32; else the fields are
\* stored (%hhu into a uint8, then into the 4-bit fields)
tinyhist_in(str) ==
    LET got == sscanf(str)
        r   == Len(got)
    IN  IF r # 32
        THEN [op |-> "in", ok |-> FALSE, hist |-> zero_hist]
        ELSE [op |-> "in", ok |-> TRUE,
              hist |-> bucket_set_all(
                           [zero_hist EXCEPT !.sample = (got[1] % 256) % FieldMod,
                                             !.unit = (got[2] % 256) % FieldMod],
                           [i \in Buckets |-> got[3 + i]])]

\* calls of tinyhist_accum in one run of the text model
MaxTextAdds == 1

InitText ==
    /\ state_null = FALSE
    /\ state \in InputHists
    /\ last = no_call
    /\ ncalls = 0
    /\ args = no_args
    /\ src = zero_hist
    /\ folded = <<>>
    /\ Unused

TextAccum(value, r) ==
    /\ text = <<>>
    /\ ncalls < MaxTextAdds
    /\ tinyhist_accum(value, r)

\* tinyhist_out(state)
Out ==
    /\ text = <<>>
    /\ text' = tinyhist_out(state)
    /\ UNCHANGED <<state, state_null, last, ncalls, combineVars, stepVars, parsed, orderVars, bitVars>>

\* tinyhist_in of the text tinyhist_out returned
In ==
    /\ text # <<>>
    /\ parsed.op = "none"
    /\ parsed' = tinyhist_in(text)
    /\ UNCHANGED <<state, state_null, last, ncalls, combineVars, stepVars, text, orderVars, bitVars>>

NextText ==
    \/ \E value \in Values, r \in RandomDraws : TextAccum(value, r)
    \/ Out
    \/ In

SpecText == InitText /\ [][NextText]_vars

\* ------------------------------------------------------------------------
\* a sequence of values added to one histogram, the values that passed the
\* sampling gate being recorded in order

\* calls of tinyhist_accum in one run of the sequence model
MaxOrder == 3

\* values added in the sequence model
OrderValues == {1, 2, 2 ^ 16}

\* the histograms a sequence is added to
OrderHists ==
    { tinyhist_recv(msg) :
        msg \in { Message(0, 0, 0, 0),   Message(0, 255, 0, 0), Message(0, 254, 1, 0),
                  Message(1, 255, 1, 0), Message(15, 255, 0, 0) } }

\* the per-value body run for elements k .. Len(values) in index order, every
\* one of them passing the sampling gate (random() returning 0)
RECURSIVE add_values(_, _, _)
add_values(hist, values, k) ==
    IF k > Len(values) THEN hist
    ELSE LET counted == accum_value(hist, values[k], 0)
         IN  IF counted.sample \in 0 .. (FieldMod - 1)
             THEN add_values(counted, values, k + 1)
             ELSE counted

\* the orders n elements can be taken in
Orders(n) ==
    { p \in [1 .. n -> 1 .. n] : \A i, j \in 1 .. n : p[i] = p[j] => i = j }

\* the elements of values in the order p
Permuted(values, p) == [i \in 1 .. Len(values) |-> values[p[i]]]

InitOrder ==
    /\ \/ state_null = TRUE /\ base = zero_hist
       \/ state_null = FALSE /\ base \in OrderHists
    /\ state = base
    /\ added = <<>>
    /\ last = no_call
    /\ ncalls = 0
    /\ args = no_args
    /\ src = zero_hist
    /\ folded = <<>>
    /\ pc = "idle"
    /\ entry = zero_hist
    /\ text = <<>>
    /\ parsed = no_parse
    /\ raw = zero_raw
    /\ wrote = no_write

\* tinyhist_accum with a non-NULL value; the value is recorded when the gate
\* let it through
OrderAccum(value, r) ==
    /\ ncalls < MaxOrder
    /\ state' = accum_value(current, value, r)
    /\ state_null' = FALSE
    /\ last' = [op |-> "accum", value |-> value, sampled |-> hist_sample(current, r),
                bucket |-> IF hist_sample(current, r)
                           THEN bucket_index(hist_adjust_range(current, value), value)
                           ELSE 0]
    /\ ncalls' = ncalls + 1
    /\ added' = IF hist_sample(current, r) THEN Append(added, value) ELSE added
    /\ UNCHANGED <<base, combineVars, stepVars, textVars, bitVars>>

\* tinyhist_accum with a NULL value
OrderAccumNull == ncalls < MaxOrder /\ tinyhist_accum_null

NextOrder ==
    \/ \E value \in OrderValues, r \in RandomDraws : OrderAccum(value, r)
    \/ OrderAccumNull

SpecOrder == InitOrder /\ [][NextOrder]_vars

\* ------------------------------------------------------------------------
\* bucket_set and bucket_get on the stored bytes, over any prior content

\* calls of bucket_set in one run of the byte model
MaxSets == 1

\* prior contents of data: all bits clear, all set, alternating, and mixed
DataPatterns ==
    { [k \in 0 .. (DataBytes - 1) |-> 0],
      [k \in 0 .. (DataBytes - 1) |-> 255],
      [k \in 0 .. (DataBytes - 1) |-> 170],
      [k \in 0 .. (DataBytes - 1) |-> (37 * k + 11) % 256] }

\* counts handed to bucket_set for a bucket: 0, 1, the top bit, alternating
\* bits, the largest count, and one count that does not fit
SetCounts(bucket) ==
    { 0, 1, 2 ^ (bucket_bits[bucket] - 1), 5592405 % (2 ^ bucket_bits[bucket]),
      bucket_maxcount(bucket), 2 ^ bucket_bits[bucket] + 1 }

InitBits ==
    /\ raw \in { [sample |-> f, unit |-> FieldMod - 1 - f, data |-> d] :
                    f \in {0, FieldMod - 1}, d \in DataPatterns }
    /\ wrote = no_write
    /\ state = zero_hist
    /\ state_null = TRUE
    /\ last = no_call
    /\ ncalls = 0
    /\ args = no_args
    /\ src = zero_hist
    /\ folded = <<>>
    /\ pc = "idle"
    /\ entry = zero_hist
    /\ text = <<>>
    /\ parsed = no_parse
    /\ base = zero_hist
    /\ added = <<>>

\* bucket_set(raw, bucket, count)
BucketSet(bucket, count) ==
    /\ ncalls < MaxSets
    /\ raw' = bucket_set_data(raw, bucket, count)
    /\ wrote' = [op |-> "set", bucket |-> bucket, count |-> count, before |-> raw]
    /\ ncalls' = ncalls + 1
    /\ UNCHANGED <<state, state_null, last, combineVars, stepVars, textVars, orderVars>>

NextBits == \E bucket \in Buckets : \E count \in SetCounts(bucket) : BucketSet(bucket, count)

SpecBits == InitBits /\ [][NextBits]_vars

\* ------------------------------------------------------------------------
\* binary output and input of a histogram

\* calls of tinyhist_accum in one run of the binary model
MaxSendAdds == 1

\* histograms sent: the input histograms, and the zero histogram after 257
\* values 3 (bucket 2 holds more than a byte)
SendHists ==
    InputHists \cup
    { add_array_range(zero_hist, Repeat(3, FillLen + 2), Repeat(FALSE, FillLen + 2),
                      Repeat(0, FillLen + 2), 1, FillLen + 2) }

InitSend ==
    /\ state_null = FALSE
    /\ state \in SendHists
    /\ last = no_call
    /\ ncalls = 0
    /\ args = no_args
    /\ src = zero_hist
    /\ folded = <<>>
    /\ Unused

SendAccum(value, r) ==
    /\ text = <<>>
    /\ ncalls < MaxSendAdds
    /\ tinyhist_accum(value, r)

\* tinyhist_send(state)
Send ==
    /\ text = <<>>
    /\ text' = tinyhist_send(state)
    /\ UNCHANGED <<state, state_null, last, ncalls, combineVars, stepVars, parsed,
                   orderVars, bitVars>>

\* tinyhist_recv of the bytes tinyhist_send returned
Recv ==
    /\ text # <<>>
    /\ parsed.op = "none"
    /\ parsed' = [op |-> "recv", ok |-> TRUE, hist |-> tinyhist_recv(text)]
    /\ UNCHANGED <<state, state_null, last, ncalls, combineVars, stepVars, text,
                   orderVars, bitVars>>

NextSend ==
    \/ \E value \in Values, r \in RandomDraws : SendAccum(value, r)
    \/ Send
    \/ Recv

SpecSend == InitSend /\ [][NextSend]_vars

\* ------------------------------------------------------------------------
\* C1: starting from the zero histogram, after any adds of values in
\* (0, 2^30] with any outcomes of the sampling gate, every bucket holds a
\* count within its capacity and no bucket_set made by an add was asked to
\* store a count of 2^width or more.
C1_BucketsWithinCapacity ==
    /\ \A i \in Buckets :
          /\ bucket_get(state, i) >= 0
          /\ bucket_get(state, i) <= bucket_maxcount(i)
    /\ ~state.overflow

\* an add that was sampled into a histogram whose sample rate and range have
\* both been escalated
C1_Witness ==
    /\ last.op = "accum"
    /\ last.sampled
    /\ state.sample > 0
    /\ state.unit > 0
    /\ bucket_get(state, last.bucket) >= 1

\* C6 as claimed: the bucket i a counted value v goes to satisfies
\* lower_i <= v < upper_i (closed below, open above).
C6_ClosedBelowOpenAbove ==
    (last.op = "accum" /\ last.sampled) =>
        /\ bucket_lower(state, last.bucket) <= last.value
        /\ last.value < bucket_upper(state, last.bucket)

\* C6 as amended: the bucket i a counted value v goes to satisfies
\* lower_i < v <= upper_i for i > 0 and v <= upper_0 for i = 0 (open below,
\* closed above), with unit_exp taken after range growth.
C6_OpenBelowClosedAbove ==
    (last.op = "accum" /\ last.sampled) =>
        /\ last.value <= bucket_upper(state, last.bucket)
        /\ last.bucket > 0 => bucket_lower(state, last.bucket) < last.value

\* a counted value that is exactly the upper bound of the bucket it went to,
\* after the range had to grow for it
C6_Witness ==
    /\ last.op = "accum"
    /\ last.sampled
    /\ last.bucket > 0
    /\ state.unit > 0
    /\ last.value = bucket_upper(state, last.bucket)

\* ------------------------------------------------------------------------
\* C2 as claimed: a merge of two histograms with in-capacity buckets never
\* asks bucket_set for a count of 2^width or more, neither while it equalizes
\* unit_exp nor while it sums, and leaves every bucket of dst within capacity.
C2_CombineNeverOverflows ==
    (last.op = "combine" /\ ~args.dst.overflow /\ ~args.src.overflow) =>
        /\ ~state.overflow
        /\ ~src.overflow
        /\ \A i \in Buckets : bucket_get(state, i) <= bucket_maxcount(i)

\* C3 as claimed: across adds and merges the sample_exp and the unit_exp of
\* a histogram never decrease (every escalation leaves the exponent one
\* greater, whatever its value 0..15 was).
C3_ExponentsNeverDecrease ==
    [][ ~state_null => /\ state'.sample >= state.sample
                       /\ state'.unit >= state.unit ]_vars

\* C7 as claimed: the merge of a and b has unit_exp = max(a.unit_exp,
\* b.unit_exp), hence the larger max_value of the two, and its sample_exp is
\* max(a.sample_exp, b.sample_exp) or that maximum plus one.
C7_CombineScale ==
    last.op = "combine" =>
        LET sample == Max(args.dst.sample, args.src.sample)
        IN  /\ state.unit = Max(args.dst.unit, args.src.unit)
            /\ hist_maxvalue(state) =
                   Max(hist_maxvalue(args.dst), hist_maxvalue(args.src))
            /\ state.sample \in {sample, sample + 1}

SameHist(a, b) ==
    /\ a.sample = b.sample
    /\ a.unit = b.unit
    /\ \A i \in Buckets : bucket_get(a, i) = bucket_get(b, i)

\* C8: merge is commutative: merge(a, b) and merge(b, a) have the same
\* sample_exp, the same unit_exp and the same count in each of the 16 buckets.
C8_CombineCommutes ==
    last.op = "combine" => SameHist(state, combine(args.src, args.dst).dst)

\* a merge of two histograms of different unit_exp and different sample_exp
\* that left counts in the result
C8_Witness ==
    /\ last.op = "combine"
    /\ args.dst.unit < args.src.unit
    /\ args.dst.sample > args.src.sample
    /\ bucket_get(state, 0) > 0

\* merge(a, merge(b, c)) for the three histograms folded into state
RightFold == combine(folded[1], combine(folded[2], folded[3]).dst).dst

ThreeCombined == last.op = "combine" /\ Len(folded) = 3

\* C9 as claimed: merge(merge(a, b), c) and merge(a, merge(b, c)) have the
\* same unit_exp and the same sample_exp (stated for the merges in which no
\* bucket_set was asked for more than a bucket holds).
C9_SameScaleAnyOrder ==
    (ThreeCombined /\ ~state.overflow /\ ~RightFold.overflow) =>
        /\ state.unit = RightFold.unit
        /\ state.sample = RightFold.sample

\* C9 as amended: merge(merge(a, b), c) and merge(a, merge(b, c)) have the
\* same unit_exp, the largest unit_exp of a, b and c (the sample_exp and the
\* counts may differ, by the rounding of the halvings).
C9_SameUnitAnyOrder ==
    ThreeCombined =>
        /\ state.unit = RightFold.unit
        /\ state.unit = Max(folded[1].unit, Max(folded[2].unit, folded[3].unit))

\* three histograms of which the last has the largest unit_exp, merged in the
\* two orders to different sample_exp
C9_Witness ==
    /\ ThreeCombined
    /\ folded[1].unit < folded[3].unit
    /\ state.sample # RightFold.sample
    /\ ~state.overflow
    /\ ~RightFold.overflow

\* ------------------------------------------------------------------------
\* C4 as claimed: hist_adjust_range(h, v) returns with max_value(h) >= v and
\* with unit_exp and sample_exp not below their values before the call.
C4_RangeEstablished ==
    pc = "index" =>
        /\ at_least(hist_maxvalue(state), last.value)
        /\ state.unit >= entry.unit
        /\ state.sample >= entry.sample

\* C5 as claimed: add terminates for every histogram and every value: a call
\* that entered hist_adjust_range comes to its end.
C5_AddTerminates == (pc = "range") ~> (pc = "idle")

\* ------------------------------------------------------------------------
\* C10 as claimed: tinyhist_in accepts the text tinyhist_out renders for a
\* valid histogram, and the histogram it returns renders to the same 18
\* fields.
C10_TextRoundTrip ==
    parsed.op = "in" =>
        /\ parsed.ok
        /\ out_fields(parsed.hist) = out_fields(state)
        /\ tinyhist_out(parsed.hist) = text

\* ------------------------------------------------------------------------
\* what adding the recorded values in the order p to base gives
Reordered(p) == add_values(base, Permuted(added, p), 1)

\* C11 as claimed: with every value passing the sampling gate, adding the
\* values of a sequence to one histogram gives the same final count in every
\* bucket for every permutation of the sequence.
C11_OrderIndependent ==
    \A p \in Orders(Len(added)) :
        \A i \in Buckets : bucket_get(Reordered(p), i) = bucket_get(state, i)

\* C11 as amended: for every permutation of the sequence the final unit_exp
\* is the same, and the final count of every bucket is the same whenever
\* neither order escalated the sample rate (sample_exp is what it was before
\* the sequence in both); orders that halve the counts at different times may
\* end with different counts and different sample_exp.
C11_OrderIndependentUnhalved ==
    \A p \in Orders(Len(added)) :
        /\ Reordered(p).unit = state.unit
        /\ (state.sample = base.sample /\ Reordered(p).sample = base.sample) =>
               \A i \in Buckets : bucket_get(Reordered(p), i) = bucket_get(state, i)

\* two different values were counted, the range grew for one of them, and
\* the sample rate was not escalated
C11_Witness ==
    /\ Len(added) >= 2
    /\ added[1] < added[2]
    /\ state.unit > base.unit
    /\ state.sample = base.sample
    /\ bucket_get(state, 0) > bucket_get(base, 0)

\* ------------------------------------------------------------------------
\* C12: after a sampled add of a value v in (0, 2^30], max_value(h) >= v and
\* the bucket bucket_index(h, v) holds a count of at least 1; and feeding
\* 1, 2, 4, ..., 2^20 in this order into the zero histogram (the first call,
\* every value sampled) ends with sample_exp = 0, unit_exp = 5,
\* max_value(h) >= 2^20 and buckets[15] >= 1.
C12_AddedValueCounted ==
    /\ (last.op = "accum" /\ last.sampled) =>
           /\ hist_maxvalue(state) >= last.value
           /\ bucket_get(state, bucket_index(state, last.value)) >= 1
    /\ (last.op = "add_array" /\ last.value = Doubling /\ ncalls = 1) =>
           /\ state.sample = 0
           /\ state.unit = 5
           /\ hist_maxvalue(state) >= 2 ^ 20
           /\ bucket_get(state, HISTOGRAM_BUCKETS - 1) >= 1

\* the values 1, 2, 4, ..., 2^20 were fed into the zero histogram
C12_DoublingFed ==
    /\ last.op = "add_array"
    /\ last.value = Doubling
    /\ ncalls = 1
    /\ state.unit > 0

\* a sampled add for which the range had to grow, into a histogram whose
\* sample rate has been escalated
C12_Witness ==
    /\ last.op = "accum"
    /\ last.sampled
    /\ last.value = hist_maxvalue(state)
    /\ state.sample > 0

\* ------------------------------------------------------------------------
\* the sums of a merge fit: dst.buckets[i] + src.buckets[i] <= max_count(i)
SumsFit(d, s) ==
    \A i \in Buckets : bucket_get(d, i) + bucket_get(s, i) <= bucket_maxcount(i)

SameScale(d, s) == d.sample = s.sample /\ d.unit = s.unit

\* C13: when two histograms have the same sample_exp and the same unit_exp
\* and dst.buckets[i] + src.buckets[i] <= max_count(i) for every i, merge is
\* exact bucket-wise addition: sample_exp and unit_exp are unchanged,
\* result.buckets[i] = dst.buckets[i] + src.buckets[i] for every i, the total
\* count is the sum of the two totals, and no over-capacity write is asked
\* for.
C13_ExactSum ==
    (last.op = "combine" /\ SameScale(args.dst, args.src) /\ SumsFit(args.dst, args.src)) =>
        /\ SameScale(state, args.dst)
        /\ \A i \in Buckets :
              bucket_get(state, i) = bucket_get(args.dst, i) + bucket_get(args.src, i)
        /\ total_count(state) = total_count(args.dst) + total_count(args.src)
        /\ state.overflow = (args.dst.overflow \/ args.src.overflow)

\* two fresh histograms each holding one observation of 100 were merged: the
\* bucket of 100 holds 2 and the total is 2
C13_Witness ==
    /\ last.op = "combine"
    /\ args.dst = accum_value(zero_hist, 100, 0)
    /\ args.src = accum_value(zero_hist, 100, 0)
    /\ bucket_get(state, bucket_index(state, 100)) = 2
    /\ total_count(state) = 2

\* ------------------------------------------------------------------------
\* C14: for every bucket i, every count v with 0 <= v < 2^width[i] and every
\* prior content of the 31 bytes, bucket_get(i) after bucket_set(i, v)
\* returns v.
C14_BitFieldRoundTrip ==
    (wrote.op = "set" /\ wrote.count < 2 ^ bucket_bits[wrote.bucket]) =>
        bucket_get_data(raw, wrote.bucket) = wrote.count

\* a count with set and clear bits was written to the last bucket, which
\* starts inside a byte, over bytes that had every bit set
C14_Witness ==
    /\ wrote.op = "set"
    /\ wrote.bucket = HISTOGRAM_BUCKETS - 1
    /\ wrote.count = 5592405 % (2 ^ bucket_bits[wrote.bucket])
    /\ \A k \in 0 .. (DataBytes - 1) : wrote.before.data[k] = 255

\* ------------------------------------------------------------------------
\* C20: the 16 bucket bit ranges [offset[i], offset[i] + width[i]) start at
\* bit 0, are contiguous (offset[i+1] = offset[i] + width[i]), hence pairwise
\* disjoint, and end inside the 248 bits of data[31]; and bucket_set(i, v)
\* leaves the decoded count of every other bucket, sample_exp and unit_exp
\* unchanged.
C20_WritesDoNotInterfere ==
    /\ bucket_offset[0] = 0
    /\ \A i \in 0 .. (HISTOGRAM_BUCKETS - 2) :
          bucket_offset[i + 1] = bucket_offset[i] + bucket_bits[i]
    /\ \A i, j \in Buckets :
          i < j => bucket_offset[i] + bucket_bits[i] <= bucket_offset[j]
    /\ bucket_offset[HISTOGRAM_BUCKETS - 1] + bucket_bits[HISTOGRAM_BUCKETS - 1]
           <= 8 * DataBytes
    /\ wrote.op = "set" =>
           /\ \A j \in Buckets \ {wrote.bucket} :
                 bucket_get_data(raw, j) = bucket_get_data(wrote.before, j)
           /\ raw.sample = wrote.before.sample
           /\ raw.unit = wrote.before.unit

\* a bucket between two others was written with a count whose bits all
\* differ from what its bytes held, its neighbours holding set bits
C20_Witness ==
    /\ wrote.op = "set"
    /\ wrote.bucket \in 1 .. (HISTOGRAM_BUCKETS - 2)
    /\ wrote.count = 0
    /\ bucket_get_data(wrote.before, wrote.bucket) = bucket_maxcount(wrote.bucket)
    /\ bucket_get_data(raw, wrote.bucket - 1) = bucket_maxcount(wrote.bucket - 1)
    /\ bucket_get_data(raw, wrote.bucket + 1) = bucket_maxcount(wrote.bucket + 1)

\* ------------------------------------------------------------------------
\* the two histograms of the last merge after the equalizing loops, and after
\* the extra halving pass
Equalized == equalize(args.dst, args.src)

Halved == extra_sample(Equalized.src, Equalized.dst)

InCapacity(hist) == \A i \in Buckets : bucket_get(hist, i) <= bucket_maxcount(i)

\* C15: in a merge, the two histograms have equal sample_exp and unit_exp and
\* in-capacity buckets after the equalizing loops, and after the at-most-one
\* extra halving of both, dst.buckets[i] + src.buckets[i] <= max_count(i)
\* holds for every i: the summing loop never writes an over-capacity count.
C15_ExtraPassSuffices ==
    last.op = "combine" =>
        LET equal == Equalized
            both  == extra_sample(equal.src, equal.dst)
        IN  /\ SameScale(equal.dst, equal.src)
            /\ InCapacity(equal.dst) /\ InCapacity(equal.src)
            /\ SumsFit(both.dst, both.src)
            /\ sum_buckets(both.src, both.dst).overflow = both.dst.overflow

\* a merge whose extra pass ran and whose halved counts sum to one less than
\* a bucket holds
C15_Witness ==
    /\ last.op = "combine"
    /\ combine_adjust_sample(Equalized.src, Equalized.dst)
    /\ \E i \in Buckets :
          bucket_get(Halved.dst, i) + bucket_get(Halved.src, i) = bucket_maxcount(i) - 1

C17_SendRecvLossy ==
    parsed.op = "recv" =>
        /\ parsed.hist.sample = state.sample
        /\ parsed.hist.unit = 0
        /\ \A i \in Buckets : bucket_get(parsed.hist, i) = bucket_get(state, i) % 256
        /\ SameHist(parsed.hist, state) <=>
               (state.unit = 0 /\ \A i \in Buckets : bucket_get(state, i) < 256)
        /\ ~parsed.hist.overflow

\* a histogram with a grown range and a bucket holding more than a byte was
\* sent and received
C17_Witness ==
    /\ parsed.op = "recv"
    /\ state.unit > 0
    /\ state.sample = 0
    /\ \E i \in Buckets : bucket_get(state, i) >= 256

\* ------------------------------------------------------------------------
\* C18 as claimed: for a value v <= max_value(h), bucket_index(h, v) is the
\* smallest i with 2^i * 2^unit_exp >= v and lies in 0..15; and when add
\* calls bucket_index, after hist_adjust_range, neither assertion of
\* bucket_index (max_value >= value, idx < 16) fails.
C18_IndexAssertionsHold ==
    pc = "index" =>
        /\ bucket_index_asserts(state, last.value)
        /\ at_least(hist_maxvalue(state), last.value) =>
               LET idx == bucket_index(state, last.value)
               IN  /\ idx \in Buckets
                   /\ (2 ^ idx) * (2 ^ state.unit) >= last.value
                   /\ \A i \in 0 .. (idx - 1) : (2 ^ i) * (2 ^ state.unit) < last.value

\* ------------------------------------------------------------------------
\* C19: count conservation without subsampling: starting from the zero
\* histogram (or from any histogram of sample_exp 0), as long as sample_exp
\* is still 0 after a sequence of adds, every non-null value added was
\* counted and the sum of the 16 buckets grew by the number of values added;
\* so every hist_adjust_unit made on the way left the sum unchanged.
C19_CountConserved ==
    (base.sample = 0 /\ state.sample = 0) =>
        /\ last.op = "accum" => last.sampled
        /\ total_count(state) = total_count(base) + Len(added)
        /\ base = zero_hist => total_count(state) = Len(added)

\* values were added to the zero histogram, the range grew after the first
\* of them was counted, and the sample rate was not escalated
C19_Witness ==
    /\ base = zero_hist
    /\ Len(added) >= 2
    /\ added[1] < added[Len(added)]
    /\ state.unit > 0
    /\ state.sample = 0
    /\ bucket_get(state, 0) >= 1

====
